---------------------------- MODULE Spec2Model ----------------------------
(***************************************************************************)
(* Model of the SQL validation and safe-execution gateway of               *)
(* MCP_SERVER/SQLCritic_MCP.py: the lexical safety scanner, the static     *)
(* check (static_check_sql) with its name resolver, and the gates and      *)
(* store accesses of dynamic_check_sql and save_to_csv.                    *)
(*                                                                         *)
(* A statement text is a sequence of symbols.  Each symbol stands for a    *)
(* piece of text that the regular expressions of the source treat as a     *)
(* unit:                                                                   *)
(*   "select"  the word SELECT            "Drop"  the word DROP, mixed case*)
(*   "x"       any other word             "sq"    '     "dq"  double quote *)
(*   "bs"      backslash                  "hash"  #     "nl"  line feed    *)
(*   "bo"      slash-star                 "bc"    star-slash               *)
(*   "semi"    ;        "sp"  blank       "lp"    (     "rp"  )            *)
(*   "cnt" / "prv" / "as_t"  the fixed text that _count_rows and           *)
(*   _preview_rows put around the statement.                               *)
(***************************************************************************)
EXTENDS Integers, Sequences, FiniteSets, TLC

VARIABLES
    sql,            \* the statement text handed to the tool
    tree,           \* what sqlglot returns for exprs[0]: its Table, CTE,
                    \* Subquery and Column nodes
    schema_tables,  \* the store's information_schema: table -> column set
    schema_up,      \* whether the schema source can be loaded and queried
    store_rows,     \* the number of rows the statement yields in the store
    columns,        \* the names of the columns of the statement's result
    limits,         \* the caller's sample_limit, preview_pool and fetch_size
    pc,             \* "idle", the step a tool is at, or the tool that returned
    result,         \* what the tool returned (or that it raised)
    conn,           \* the tool's store connection: "none", "open", "closed"
    executed,       \* the texts handed to cursor.execute, in order
    total,          \* dynamic_check_sql: the count, or that it failed
    preview,        \* dynamic_check_sql: what _preview_rows fetched and
                    \* returned, or that it failed
    sink,           \* save_to_csv: the exports directory and the CSV file
    rows_written,   \* save_to_csv: its counter
    fetched,        \* save_to_csv: the rows the cursor has handed over
    faults,         \* the steps at which the store failed on a text it
                    \* could have run
    snap,           \* static_check_sql: the connection of its snapshot
    described       \* get_mysql_schema: the tables it has read

vars == <<sql, tree, schema_tables, schema_up, store_rows, columns, limits, pc,
          result, conn, executed, total, preview, sink, rows_written, fetched,
          faults, snap, described>>

-----------------------------------------------------------------------------
(* Bounds of the model.                                                    *)

MaxSqlLen == 5
MaxQuoteLen == 6
MaxTables == 2
MaxColumns == 1
MaxRows == 3
MaxSample == 2
MaxPool == 3
MaxFetch == 2

-----------------------------------------------------------------------------
(* Text.                                                                   *)

\* str.lower() / re.I on one symbol: only words have letter case.
Lower(c) ==
    CASE c = "Drop" -> "drop"
      [] c = "SELECT" -> "select"
      [] c = "T1" -> "t1"
      [] c = "ID" -> "id"
      [] c = "D" -> "d"
      [] OTHER -> c

WordSymbols == {"select", "SELECT", "with", "Drop", "drop", "x"}

IsWord(c) == c \in WordSymbols

IsSpace(c) == c \in {"sp", "nl"}

\* All texts over an alphabet, up to a length.
Texts(alphabet, n) == UNION {[1..k -> alphabet] : k \in 0..n}

\* The first index j >= i of s holding symbol c, or Len(s)+1.
RECURSIVE IndexFrom(_, _, _)
IndexFrom(s, i, c) ==
    IF i > Len(s) \/ s[i] = c THEN i ELSE IndexFrom(s, i + 1, c)

-----------------------------------------------------------------------------
(* FORBIDDEN_TOKENS, lines 16-22: each pattern is a word between \b, two   *)
(* words joined by \s+, or LOAD_FILE followed by \s*\( .                   *)

FORBIDDEN_TOKENS ==
    << <<"insert">>, <<"update">>, <<"delete">>, <<"replace">>, <<"merge">>,
       <<"alter">>, <<"drop">>, <<"truncate">>, <<"create">>,
       <<"grant">>, <<"revoke">>, <<"set">>, <<"call">>, <<"exec">>,
       <<"lock">>, <<"unlock">>, <<"into", "outfile">>, <<"load", "data">>,
       <<"load_file", "(">> >>

\* The first index j >= i of s that holds no white space, or Len(s)+1.
RECURSIVE SkipSpace(_, _)
SkipSpace(s, i) ==
    IF i > Len(s) \/ ~IsSpace(s[i]) THEN i ELSE SkipSpace(s, i + 1)

\* \b before position i and after position j of s.
BoundaryBefore(s, i) == i = 1 \/ ~IsWord(s[i - 1])
BoundaryAfter(s, j) == j = Len(s) \/ ~IsWord(s[j + 1])

\* re.search(pat, s, flags=re.I) anchored at position i.
MatchesAt(pat, s, i) ==
    /\ Lower(s[i]) = pat[1]
    /\ BoundaryBefore(s, i)
    /\ IF Len(pat) = 1
         THEN BoundaryAfter(s, i)
         ELSE LET j == SkipSpace(s, i + 1)
              IN  IF pat[2] = "("
                    THEN j <= Len(s) /\ s[j] = "lp"
                    ELSE /\ j > i + 1
                         /\ j <= Len(s)
                         /\ Lower(s[j]) = pat[2]
                         /\ BoundaryAfter(s, j)

re_search(pat, s) == \E i \in 1..Len(s) : MatchesAt(pat, s, i)

-----------------------------------------------------------------------------
(* _remove_comments_and_strings, lines 24-41: five re.sub passes.          *)

\* re.sub(marker + "[^\n]*", " ", s): from the marker up to, not including,
\* the next line feed.
RECURSIVE SubLineComment(_, _, _)
SubLineComment(s, i, marker) ==
    IF i > Len(s) THEN <<>>
    ELSE IF s[i] = marker
           THEN <<"sp">> \o SubLineComment(s, IndexFrom(s, i, "nl"), marker)
           ELSE <<s[i]>> \o SubLineComment(s, i + 1, marker)

\* re.sub("/\*.*?\*/", " ", s, flags=re.S): from an opener to the first
\* closer after it; an opener with no closer is left in place.
RECURSIVE SubBlockComment(_, _)
SubBlockComment(s, i) ==
    IF i > Len(s) THEN <<>>
    ELSE LET j == IndexFrom(s, i + 1, "bc")
         IN  IF s[i] = "bo" /\ j <= Len(s)
               THEN <<"sp">> \o SubBlockComment(s, j + 1)
               ELSE <<s[i]>> \o SubBlockComment(s, i + 1)

\* The closing quote of q([^q\\]|\\.)*q for a match that has read up to
\* j - 1, or 0 when there is no match: a backslash takes the next symbol
\* with it, unless that is a line feed ("." without re.S).
RECURSIVE CloseQuote(_, _, _)
CloseQuote(s, j, q) ==
    IF j > Len(s) THEN 0
    ELSE IF s[j] = q THEN j
    ELSE IF s[j] = "bs"
           THEN IF j + 1 > Len(s) \/ s[j + 1] = "nl"
                  THEN 0
                  ELSE CloseQuote(s, j + 2, q)
           ELSE CloseQuote(s, j + 1, q)

\* re.sub(q([^q\\]|\\.)*q, qq, s): leftmost matches, left to right.
RECURSIVE SubQuoted(_, _, _)
SubQuoted(s, i, q) ==
    IF i > Len(s) THEN <<>>
    ELSE LET e == IF s[i] = q THEN CloseQuote(s, i + 1, q) ELSE 0
         IN  IF e > 0
               THEN <<q, q>> \o SubQuoted(s, e + 1, q)
               ELSE <<s[i]>> \o SubQuoted(s, i + 1, q)

_remove_comments_and_strings(s) ==
    LET s1 == SubLineComment(s, 1, "dash2")
        s2 == SubLineComment(s1, 1, "hash")
        s3 == SubBlockComment(s2, 1)
        s4 == SubQuoted(s3, 1, "sq")
    IN  SubQuoted(s4, 1, "dq")

\* str.strip() and str.rstrip(';').
RECURSIVE RStripSet(_, _)
RStripSet(s, chars) ==
    IF Len(s) > 0 /\ s[Len(s)] \in chars
      THEN RStripSet(SubSeq(s, 1, Len(s) - 1), chars)
      ELSE s

RECURSIVE LStripSet(_, _)
LStripSet(s, chars) ==
    IF Len(s) > 0 /\ s[1] \in chars
      THEN LStripSet(Tail(s), chars)
      ELSE s

strip(s) == LStripSet(RStripSet(s, {"sp", "nl"}), {"sp", "nl"})

Contains(s, c) == \E i \in 1..Len(s) : s[i] = c

\* _is_single_statement, lines 247-262.
_is_single_statement(s) ==
    LET scrubbed == _remove_comments_and_strings(s)
        trimmed  == strip(scrubbed)
        cut      == IF Len(trimmed) > 0 /\ trimmed[Len(trimmed)] = "semi"
                      THEN strip(SubSeq(trimmed, 1, Len(trimmed) - 1))
                      ELSE trimmed
    IN  ~Contains(cut, "semi")

\* The patterns of FORBIDDEN_TOKENS that re.search finds in the scrubbed
\* text (lines 278-281 and 583-587), as indices into FORBIDDEN_TOKENS.
forbidden_hits(s) ==
    LET scrubbed == _remove_comments_and_strings(s)
    IN  {k \in 1..Len(FORBIDDEN_TOKENS) : re_search(FORBIDDEN_TOKENS[k], scrubbed)}

\* re.match("^\s*[\(]*\s*(select|with)\b", sql, flags=re.I), line 274.
RECURSIVE SkipParens(_, _)
SkipParens(s, i) ==
    IF i > Len(s) \/ s[i] # "lp" THEN i ELSE SkipParens(s, i + 1)

head_matches(s) ==
    LET i == SkipSpace(s, SkipParens(s, SkipSpace(s, 1)))
    IN  /\ i <= Len(s)
        /\ Lower(s[i]) \in {"select", "with"}
        /\ BoundaryAfter(s, i)

\* _is_readonly_select, lines 264-282.
_is_readonly_select(s) ==
    IF ~head_matches(s) THEN FALSE
    ELSE forbidden_hits(s) = {}

-----------------------------------------------------------------------------
(* sqlglot.parse(sql, read="mysql"), called by _parse_sql_expressions      *)
(* (lines 79-88) and nowhere else.  Its tokenizer reads the text as the    *)
(* store does: a quote opens a string that runs to the same quote, with a  *)
(* backslash taking the next symbol; # and -- open a comment that runs to  *)
(* the line feed; slash-star opens one that runs to star-slash.            *)

\* The tokenizer's mode after reading symbol c in mode m.
LexStep(m, c) ==
    CASE m = "code" ->
            (CASE c = "sq" -> "sq"
               [] c = "dq" -> "dq"
               [] c \in {"hash", "dash2"} -> "line"
               [] c = "bo" -> "block"
               [] OTHER -> "code")
      [] m = "sq" ->
            (CASE c = "bs" -> "sq_esc" [] c = "sq" -> "code" [] OTHER -> "sq")
      [] m = "dq" ->
            (CASE c = "bs" -> "dq_esc" [] c = "dq" -> "code" [] OTHER -> "dq")
      [] m = "sq_esc" -> "sq"
      [] m = "dq_esc" -> "dq"
      [] m = "line" -> (IF c = "nl" THEN "code" ELSE "line")
      [] m = "block" -> (IF c = "bc" THEN "code" ELSE "block")

\* The mode in which each symbol of s is read, and the mode at the end.
RECURSIVE LexFrom(_, _, _)
LexFrom(s, i, m) ==
    IF i > Len(s) THEN <<m>>
    ELSE <<m>> \o LexFrom(s, i + 1, LexStep(m, s[i]))

LexModes(s) == LexFrom(s, 1, "code")

\* Symbol i of s starts a token: it is read as code and is neither white
\* space nor the start of a comment.
IsToken(s, modes, i) ==
    modes[i] = "code" /\ s[i] \notin {"sp", "nl", "hash", "dash2", "bo"}

\* A tokenizer that never raises.
NoTokenError(s) == FALSE

\* A string that is not closed is a TokenError.
TokenError(s) ==
    LexModes(s)[Len(s) + 1] \in {"sq", "dq", "sq_esc", "dq_esc"}

\* The semicolon tokens of s that are followed by another token: the
\* parser starts a new chunk at each of them, and at no other place.
ChunkBreaks(s) ==
    LET modes == LexModes(s)
    IN  {i \in 1..Len(s) :
            /\ s[i] = "semi"
            /\ modes[i] = "code"
            /\ \E j \in (i + 1)..Len(s) : IsToken(s, modes, j)}

\* The node sqlglot builds for the first chunk, by the chunk's first token.
FirstToken(s) ==
    LET modes == LexModes(s)
        toks  == {i \in 1..Len(s) : IsToken(s, modes, i)}
    IN  IF toks = {} THEN 0
        ELSE CHOOSE i \in toks : \A j \in toks : i <= j

TopKind(s) ==
    LET i == FirstToken(s)
    IN  IF i = 0 \/ s[i] = "semi" THEN "None"
        ELSE IF IsWord(s[i]) /\ i < Len(s) /\ IsWord(s[i + 1])
          THEN "Command"   \* a longer word, which is a name
        ELSE IF Lower(s[i]) \in {"select", "with"} THEN "Select"
        ELSE IF s[i] = "lp" THEN "Subquery"
        ELSE "Command"

\* _parse_sql_expressions, lines 79-88: the kinds of the top-level
\* expressions, one per chunk; the first chunk's kind is TopKind.  The
\* kinds of the later chunks are not read by the source.
_parse_sql_expressions(s) ==
    [k \in 1..(Cardinality(ChunkBreaks(s)) + 1) |->
        IF k = 1 THEN TopKind(s) ELSE "Later"]

\* _is_select_like, lines 91-108.  sqlglot hands a WITH query over as the
\* Select (or Union) node of its body, so no text of the model yields the
\* kind "With".
_is_select_like(kind) ==
    IF kind = "Select" THEN TRUE
    ELSE IF kind = "With" THEN TRUE
    ELSE IF kind = "Union" THEN TRUE
    ELSE FALSE

-----------------------------------------------------------------------------
(* The name resolver, lines 111-245.  The tree of a statement is held as   *)
(* the nodes root.find_all yields, in the order it yields them:            *)
(*   tables      <<[name, alias], ...>>      exp.Table, alias "" if none   *)
(*   ctes        <<alias, ...>>              exp.CTE                       *)
(*   subqueries  <<alias, ...>>              exp.Subquery, "" if none      *)
(*   columns     <<[name, table, clause], ...>>  exp.Column, table "" if   *)
(*               the reference has no prefix; clause is what clause_of     *)
(*               (lines 190-206) finds among the node's ancestors.         *)
(* A dict is held as the sequence of its items in insertion order.         *)

\* dict: d[key] = val.
DictSet(d, key, val) ==
    IF \E i \in 1..Len(d) : d[i].key = key
      THEN [i \in 1..Len(d) |-> IF d[i].key = key THEN [key |-> key, val |-> val] ELSE d[i]]
      ELSE Append(d, [key |-> key, val |-> val])

\* dict: d.get(key), "" standing for None.
DictGet(d, key) ==
    IF \E i \in 1..Len(d) : d[i].key = key
      THEN (CHOOSE it \in {d[i] : i \in 1..Len(d)} : it.key = key).val
      ELSE ""

DictValues(d) == {d[i].val : i \in 1..Len(d)}

\* One turn of the loop of _collect_real_table_aliases, lines 122-131.
AddTable(mapping, t) ==
    LET real_name == Lower(t.name)
    IN  IF real_name = "" THEN mapping
        ELSE LET m1 == IF t.alias # ""
                         THEN DictSet(mapping, Lower(t.alias), real_name)
                         ELSE mapping
             IN  DictSet(m1, real_name, real_name)

RECURSIVE AddTables(_, _, _)
AddTables(mapping, tables, i) ==
    IF i > Len(tables) THEN mapping
    ELSE AddTables(AddTable(mapping, tables[i]), tables, i + 1)

\* _collect_real_table_aliases, lines 111-132.
_collect_real_table_aliases(root) == AddTables(<<>>, root.tables, 1)

\* _collect_derived_aliases without the two lower() calls.
DerivedAliasesAsWritten(root) ==
    {root.ctes[i] : i \in {j \in 1..Len(root.ctes) : root.ctes[j] # ""}}
    \cup
    {root.subqueries[i] :
        i \in {j \in 1..Len(root.subqueries) : root.subqueries[j] # ""}}

\* _collect_derived_aliases, lines 135-156.
_collect_derived_aliases(root) ==
    {Lower(root.ctes[i]) : i \in {j \in 1..Len(root.ctes) : root.ctes[j] # ""}}
    \cup
    {Lower(root.subqueries[i]) :
        i \in {j \in 1..Len(root.subqueries) : root.subqueries[j] # ""}}

\* sorted(): the names of the model in str order.
NameOrder == <<"a", "d", "id", "t1", "t2", "x">>

\* schema_tables.get(real, set()), lines 231 and 237.
SchemaGet(schema, real) ==
    IF real \in DOMAIN schema THEN schema[real] ELSE {}

\* The columns of table real, lower-cased, lines 231 and 237.
LoweredColumns(schema, real) == {Lower(c) : c \in SchemaGet(schema, real)}

\* Lines 182-186: every referred real table that is no key of the
\* snapshot, in sorted order.
MissingTables(real_aliases, schema) ==
    LET referred == DictValues(real_aliases)
        keys     == {Lower(k) : k \in DOMAIN schema}
    IN  SelectSeq(NameOrder, LAMBDA t : t \in referred /\ t \notin keys)

\* Lines 235-238: one candidate per item of real_aliases.
RECURSIVE Candidates(_, _, _, _, _)
Candidates(real_aliases, i, all_real_tables, schema, col_name) ==
    IF i > Len(real_aliases) THEN <<>>
    ELSE LET real == real_aliases[i].val
             rest == Candidates(real_aliases, i + 1, all_real_tables, schema, col_name)
         IN  IF real \in all_real_tables /\ col_name \in LoweredColumns(schema, real)
               THEN <<[table |-> real, column |-> col_name]>> \o rest
               ELSE rest

\* Lines 211-243: what one Column node adds to the two lists.  kind is
\* "none", "missing" or "ambiguous".
ColumnFinding(col, real_aliases, derived_aliases, schema) ==
    LET col_name        == Lower(col.name)
        tbl_prefix      == col.table
        all_real_tables == {Lower(t) : t \in DOMAIN schema}
        none            == [kind |-> "none", table |-> "", column |-> col_name,
                            candidates |-> <<>>, context |-> col.clause]
    IN  IF col_name = "" THEN none
        ELSE IF tbl_prefix # ""
          THEN LET alias_lower == Lower(tbl_prefix)
                   real        == DictGet(real_aliases, alias_lower)
               IN  IF alias_lower \in derived_aliases THEN none
                   ELSE IF real = "" THEN none
                   ELSE IF real \notin all_real_tables THEN none
                   ELSE IF col_name \notin LoweredColumns(schema, real)
                     THEN [none EXCEPT !.kind = "missing", !.table = real]
                     ELSE none
          ELSE LET candidates == Candidates(real_aliases, 1, all_real_tables,
                                            schema, col_name)
               IN  IF Len(candidates) = 0
                     THEN [none EXCEPT !.kind = "missing", !.table = "*"]
                   ELSE IF Len(candidates) > 1
                     THEN [none EXCEPT !.kind = "ambiguous", !.candidates = candidates]
                     ELSE none

\* _check_schema_columns, lines 159-245.
_check_schema_columns(root, schema) ==
    LET real_aliases    == _collect_real_table_aliases(root)
        derived_aliases == _collect_derived_aliases(root)
        found == [i \in 1..Len(root.columns) |->
                    ColumnFinding(root.columns[i], real_aliases, derived_aliases, schema)]
    IN  [missing_tables    |-> MissingTables(real_aliases, schema),
         missing_columns   |-> SelectSeq(found, LAMBDA f : f.kind = "missing"),
         ambiguous_columns |-> SelectSeq(found, LAMBDA f : f.kind = "ambiguous")]

-----------------------------------------------------------------------------
(* static_check_sql, lines 509-648.                                        *)

NoColumns == [missing_tables |-> <<>>, missing_columns |-> <<>>,
              ambiguous_columns |-> <<>>]

\* A finding is held as its code.
FindingIf(cond, code) == IF cond THEN <<code>> ELSE <<>>

\* Lines 611-617 with an ambiguous column as grave as a missing one.
SchemaMatchStrict(found) ==
    IF Len(found.missing_tables) > 0 \/ Len(found.missing_columns) > 0
       \/ Len(found.ambiguous_columns) > 0
      THEN "fail"
      ELSE "pass"

\* Lines 611-617.
SchemaMatchStatus(found) ==
    IF Len(found.missing_tables) > 0 \/ Len(found.missing_columns) > 0 THEN "fail"
    ELSE IF Len(found.ambiguous_columns) > 0 THEN "warn"
    ELSE "pass"

\* A summing up that leaves the read-only check out.
OverallIgnoresReadonly(multi_statement, readonly, schema_match) ==
    IF multi_statement = "fail" \/ schema_match = "fail"
      THEN "fail"
      ELSE "pass"

\* Lines 619-626.
OverallStatus(multi_statement, readonly, schema_match) ==
    IF multi_statement = "fail" \/ readonly = "fail" \/ schema_match = "fail"
      THEN "fail"
      ELSE "pass"

\* The call raised: nothing is returned.
StaticRaised(at) ==
    [tool |-> "static", raised |-> TRUE, at |-> at, status |-> "",
     multi_statement |-> "", readonly |-> "", forbidden |-> {},
     schema_match |-> "", found |-> NoColumns, findings |-> <<>>]

\* s: the text; root: the tree of exprs[0]; schema: what the schema source
\* holds; up: whether load_mysql_config and the schema source answer.
static_check_sql(s, root, schema, up) ==
    IF TokenError(s)
      THEN \* lines 547-560
           [tool |-> "static", raised |-> FALSE, at |-> "parse", status |-> "fail",
            multi_statement |-> "pass", readonly |-> "pass", forbidden |-> {},
            schema_match |-> "pass", found |-> NoColumns,
            findings |-> <<"SQL_PARSE_ERROR">>]
      ELSE
        LET exprs    == _parse_sql_expressions(s)
            multi    == Len(exprs) # 1
            top      == exprs[1]
            nonro    == ~_is_select_like(top)
            hits     == forbidden_hits(s)
            readonly == IF nonro \/ hits # {} THEN "fail" ELSE "pass"
            multi_statement == IF multi THEN "fail" ELSE "pass"
            findings == FindingIf(multi, "MULTI_STATEMENT")
                        \o FindingIf(nonro, "NON_READONLY")
                        \o FindingIf(hits # {}, "FORBIDDEN_TOKEN")
        IN  IF ~up
              THEN StaticRaised("fetch")            \* line 598 raises
            ELSE IF top = "None"
              THEN StaticRaised("resolve")          \* line 121: None.find_all
            ELSE
              LET found == _check_schema_columns(root, schema)
                  schema_match == SchemaMatchStatus(found)
              IN  [tool |-> "static", raised |-> FALSE, at |-> "end",
                   status |-> OverallStatus(multi_statement, readonly, schema_match),
                   multi_statement |-> multi_statement, readonly |-> readonly,
                   forbidden |-> hits, schema_match |-> schema_match,
                   found |-> found, findings |-> findings]

-----------------------------------------------------------------------------
(* Inputs.                                                                 *)

ScanAlphabet == {"select", "Drop", "sq", "hash", "nl", "semi"}
QuoteAlphabet == {"select", "Drop", "sq", "dq", "bs"}

\* A statement with no table and no column reference.
EmptyTree == [tables |-> <<>>, ctes |-> <<>>, subqueries |-> <<>>, columns |-> <<>>]

EmptySchema == [t \in {} |-> {}]

TableNodes ==
    {[name |-> "t1", alias |-> ""], [name |-> "t1", alias |-> "a"],
     [name |-> "T1", alias |-> ""], [name |-> "t2", alias |-> ""],
     [name |-> "t2", alias |-> "d"], [name |-> "d", alias |-> ""]}

ColumnNodes ==
    {[name |-> "id", table |-> "", clause |-> "where"],
     [name |-> "ID", table |-> "", clause |-> "where"],
     [name |-> "id", table |-> "t1", clause |-> "join_on"],
     [name |-> "id", table |-> "a", clause |-> "join_on"],
     [name |-> "x", table |-> "D", clause |-> "select"],
     [name |-> "x", table |-> "", clause |-> "select"]}

Derived ==
    {[ctes |-> <<>>, subqueries |-> <<>>],
     [ctes |-> <<"d">>, subqueries |-> <<>>],
     [ctes |-> <<>>, subqueries |-> <<"D">>]}

Trees ==
    {[tables |-> t, ctes |-> d.ctes, subqueries |-> d.subqueries, columns |-> c] :
        t \in Texts(TableNodes, MaxTables),
        c \in Texts(ColumnNodes, MaxColumns),
        d \in Derived}

\* Snapshots of the schema source: table 1 under a lower-case or an
\* upper-case key, with or without table 2.
Schemas ==
    {EmptySchema,
     [t \in {"t1"} |-> {"id"}],
     [t \in {"T1"} |-> {"id"}],
     [t \in {"t1", "t2"} |-> {"id"}],
     [t \in {"t1", "t2"} |-> IF t = "t1" THEN {"ID", "x"} ELSE {"id"}],
     [t \in {"T1", "t2"} |-> {"id"}]}

-----------------------------------------------------------------------------
(* The tools as actions.                                                   *)

Idle == [tool |-> "none"]

\* total = None, line 735.
CountFailed == [failed |-> TRUE, n |-> 0]

NoSink == [dir |-> FALSE, file |-> "absent", header |-> <<>>, lines |-> <<>>]

Min(a, b) == IF a <= b THEN a ELSE b

inputs == <<sql, tree, schema_tables, store_rows, columns, limits>>

\* static_check_sql is called and returns or raises.
\* _fetch_schema_snapshot, lines 55-76: the state of its connection when
\* it returns or raises.  connected: pymysql.connect returned; the
\* connection is closed in the finally clause whatever the query did.
_fetch_schema_snapshot(connected) == IF connected THEN "closed" ELSE "none"

\* static_check_sql reaches line 598 unless the parse failed.
StaticCheck ==
    /\ pc = "idle"
    /\ \E up \in BOOLEAN :
          /\ result' = static_check_sql(sql, tree, schema_tables, up)
          /\ schema_up' = up
          /\ IF TokenError(sql)
               THEN snap' = snap
               ELSE \E connected \in {c \in BOOLEAN : up => c} :
                       snap' = _fetch_schema_snapshot(connected)
    /\ pc' = "static"
    /\ UNCHANGED <<inputs, described, conn, executed, total, preview, sink, rows_written, fetched, faults>>

\* The text _count_rows executes, line 319, and the text _preview_rows
\* executes, line 337.
count_sql(s) == <<"cnt">> \o RStripSet(s, {"semi"}) \o <<"as_t">>
preview_sql(s) == <<"prv">> \o RStripSet(s, {"semi"}) \o <<"as_t_limit">>

\* cursor.execute(q), lines 320, 338 and 862: the store cannot run a text
\* that ends inside a string or a comment opened with slash-star, that
\* goes on after a statement terminator, or, q being a statement put
\* between "( " and " ) AS __t", whose closing part is read as string or
\* comment or whose columns do not have names of their own (a derived
\* table cannot hold two columns of one name).  The words of a text stand for any statement, so whether the
\* store runs a text that is well formed in this sense is left open.
StoreRejects(q) ==
    LET modes == LexModes(q)
        wrapped == Len(q) > 0 /\ q[Len(q)] \in {"as_t", "as_t_limit"}
    IN  \/ modes[Len(q) + 1] \notin {"code", "line"}
        \/ ChunkBreaks(q) # {}
        \/ wrapped /\ modes[Len(q)] # "code"
        \/ wrapped /\ \E i, j \in 1..Len(columns) : i # j /\ columns[i] = columns[j]

StoreAnswers(q) == IF StoreRejects(q) THEN {FALSE} ELSE BOOLEAN

\* The store failed on a text it could have run: noted for the step.
Fault(step, q, answers) ==
    IF ~answers /\ ~StoreRejects(q) THEN faults \cup {step} ELSE faults

DynError(why) ==
    [tool |-> "dynamic", ok |-> FALSE, status |-> "runtime_error", error |-> why,
     row_count |-> 0, sample_rows |-> <<>>, note |-> ""]

\* dynamic_check_sql, lines 698-714: the two gates.  The caller may call
\* the tool first or once static_check_sql is done with the statement.
DynGate ==
    /\ pc \in {"idle", "static"}
    /\ IF ~_is_single_statement(sql)
         THEN result' = DynError("gate_multi") /\ pc' = "dynamic"
       ELSE IF ~_is_readonly_select(sql)
         THEN result' = DynError("gate_readonly") /\ pc' = "dynamic"
       ELSE result' = result /\ pc' = "dyn_connect"
    /\ UNCHANGED <<inputs, snap, described, schema_up, conn, executed, total, preview, sink, rows_written, fetched, faults>>

\* Lines 716-726: _connect_mysql returns a connection or raises.
DynConnect ==
    /\ pc = "dyn_connect"
    /\ \E up \in BOOLEAN :
          IF up
            THEN conn' = "open" /\ pc' = "dyn_count" /\ result' = result
            ELSE conn' = conn /\ pc' = "dynamic" /\ result' = DynError("connect")
    /\ UNCHANGED <<inputs, snap, described, schema_up, executed, total, preview, sink, rows_written, fetched, faults>>

\* Lines 731-738 with no handler around _count_rows: an error of the
\* count query ends the tool with a runtime_error.
DynCountFatal ==
    /\ pc = "dyn_count"
    /\ executed' = Append(executed, count_sql(sql))
    /\ \E answers \in StoreAnswers(count_sql(sql)) :
          /\ faults' = Fault("count", count_sql(sql), answers)
          /\ IF answers
               THEN /\ total' = [failed |-> FALSE, n |-> store_rows]
                    /\ pc' = "dyn_preview"
                    /\ UNCHANGED <<result, conn>>
               ELSE /\ total' = CountFailed
                    /\ result' = DynError("count")
                    /\ conn' = "closed"
                    /\ pc' = "dynamic"
    /\ UNCHANGED <<inputs, snap, described, schema_up, preview, sink, rows_written, fetched>>

\* Lines 731-738: _count_rows executes the count query; the store answers
\* with the number of rows or with an error.
DynCount ==
    /\ pc = "dyn_count"
    /\ executed' = Append(executed, count_sql(sql))
    /\ \E answers \in StoreAnswers(count_sql(sql)) :
          /\ faults' = Fault("count", count_sql(sql), answers)
          /\ total' = IF answers THEN [failed |-> FALSE, n |-> store_rows]
                                 ELSE CountFailed
    /\ pc' = "dyn_preview"
    /\ UNCHANGED <<inputs, snap, described, schema_up, result, conn, preview, sink, rows_written, fetched>>

\* random.choices(range(n), k=k): k places out of n, in any order, a place
\* possibly more than once.
Choices(n, k) == [1..k -> 1..n]

\* random.sample(range(n), k), line 345: k places out of n, in any order,
\* no place twice.
Sample(n, k) ==
    {idxs \in [1..k -> 1..n] : \A i, j \in 1..k : idxs[i] = idxs[j] => i = j}

\* The pool cursor.fetchall returns (line 339) for a store of rows rows: a
\* row is held as its place in the statement's result.
FetchPool(rows, pool_limit) == [i \in 1..Min(rows, pool_limit) |-> i]

\* _preview_rows drawing with random.choices.
PreviewRowsWithRepeats(pool, sample_limit) ==
    IF Len(pool) = 0 THEN {<<>>}
    ELSE IF Len(pool) <= sample_limit THEN {pool}
    ELSE {[i \in 1..sample_limit |-> pool[idxs[i]]] :
             idxs \in Choices(Len(pool), sample_limit)}

\* _preview_rows past its query, lines 339-346: the lists of rows it may
\* return for a pool.
_preview_rows(pool, sample_limit) ==
    IF Len(pool) = 0 THEN {<<>>}
    ELSE IF Len(pool) <= sample_limit THEN {pool}
    ELSE {[i \in 1..sample_limit |-> pool[idxs[i]]] :
             idxs \in Sample(Len(pool), sample_limit)}

\* No preview yet, or _preview_rows raised (lines 743-748).
PreviewFailed == [failed |-> TRUE, pool |-> <<>>, samples |-> <<>>]

\* Lines 750-775: the outcome built from the count and the samples.
DynOutcome(tot, samples) ==
    LET row_count == IF tot.failed THEN Len(samples) ELSE tot.n
    IN  IF row_count = 0
          THEN [tool |-> "dynamic", ok |-> TRUE, status |-> "success",
                error |-> "", row_count |-> 0, sample_rows |-> <<>>,
                note |-> "empty_hint"]
          ELSE [tool |-> "dynamic", ok |-> TRUE, status |-> "success",
                error |-> "", row_count |-> row_count, sample_rows |-> samples,
                note |-> IF tot.failed THEN "count_failed" ELSE "executed"]

\* Lines 741-788 with a failed preview answered from the count when there
\* is one.
DynPreviewCountWins ==
    /\ pc = "dyn_preview"
    /\ executed' = Append(executed, preview_sql(sql))
    /\ \E answers \in StoreAnswers(preview_sql(sql)) :
          /\ faults' = Fault("preview", preview_sql(sql), answers)
          /\ IF ~answers
            THEN /\ preview' = PreviewFailed
                 /\ result' = IF total.failed THEN DynError("preview")
                                              ELSE DynOutcome(total, <<>>)
            ELSE LET pool == FetchPool(store_rows, limits.preview_pool)
                 IN  \E samples \in _preview_rows(pool, limits.sample_limit) :
                        /\ preview' = [failed |-> FALSE, pool |-> pool,
                                       samples |-> samples]
                        /\ result' = DynOutcome(total, samples)
    /\ conn' = "closed"
    /\ pc' = "dynamic"
    /\ UNCHANGED <<inputs, snap, described, schema_up, total, sink, rows_written, fetched>>

\* Lines 741-788: _preview_rows executes the preview query (line 338), the
\* store answers with the first preview_pool rows or with an error, the
\* sample is drawn, and the tool returns; the connection is closed on the
\* way out.
DynPreview ==
    /\ pc = "dyn_preview"
    /\ executed' = Append(executed, preview_sql(sql))
    /\ \E answers \in StoreAnswers(preview_sql(sql)) :
          /\ faults' = Fault("preview", preview_sql(sql), answers)
          /\ IF ~answers
            THEN /\ preview' = PreviewFailed
                 /\ result' = DynError("preview")
            ELSE LET pool == FetchPool(store_rows, limits.preview_pool)
                 IN  \E samples \in _preview_rows(pool, limits.sample_limit) :
                        /\ preview' = [failed |-> FALSE, pool |-> pool,
                                       samples |-> samples]
                        /\ result' = DynOutcome(total, samples)
    /\ conn' = "closed"
    /\ pc' = "dynamic"
    /\ UNCHANGED <<inputs, snap, described, schema_up, total, sink, rows_written, fetched>>

SaveError(why) ==
    [tool |-> "save", ok |-> FALSE, status |-> "runtime_error", error |-> why,
     rows_written |-> 0, file_path |-> FALSE]

\* Row i of the statement's result: one value per column, the value of
\* column j being held as <<i, j>>.
ResultRow(i) == [j \in 1..Len(columns) |-> <<i, j>>]

\* The first place of name in names.
FirstIndex(names, name) ==
    CHOOSE j \in 1..Len(names) :
        names[j] = name /\ \A k \in 1..(j - 1) : names[k] # name

\* Line 874: [row.get(col) for col in colnames].  row is the dict that
\* DictCursor builds of the row: a column whose name has come before is
\* entered under another key, so row.get(col) is the value of the first
\* column of that name.
WrittenRow(row, colnames) ==
    [j \in 1..Len(colnames) |-> row[FirstIndex(colnames, colnames[j])]]

\* An export that reports every result as success.
SaveOutcomeAlwaysSuccess(n) ==
    [tool |-> "save", ok |-> TRUE, status |-> "success", error |-> "",
     rows_written |-> n, file_path |-> TRUE]

\* An export that counts the header row as a written row.
SaveOutcomeCountsHeader(n) ==
    [tool |-> "save", ok |-> TRUE, status |-> "success", error |-> "",
     rows_written |-> n + 1, file_path |-> TRUE]

\* Lines 895-907: the outcome of an export that met no error.
SaveOutcome(n) ==
    [tool |-> "save", ok |-> TRUE,
     status |-> IF n = 0 THEN "empty" ELSE "success",
     error |-> "", rows_written |-> n, file_path |-> TRUE]

\* get_mysql_schema, the outcomes of lines 443-506.
SchemaOutcome(ok, raised, n) ==
    [tool |-> "schema", ok |-> ok, raised |-> raised, tables |-> n]

\* The tables SHOW TABLES lists.
StoreTables == DOMAIN schema_tables

\* Lines 443-459: the configuration is read and the connection made; an
\* error of either is returned.
SchemaConnect ==
    /\ pc = "idle"
    /\ \E up \in BOOLEAN :
          IF up
            THEN conn' = "open" /\ pc' = "schema_tables" /\ result' = result
            ELSE conn' = conn /\ pc' = "schema" /\ result' = SchemaOutcome(FALSE, FALSE, 0)
    /\ described' = 0
    /\ UNCHANGED <<inputs, snap, schema_up, executed, total, preview, sink, rows_written, fetched, faults>>

\* A listing of the tables that returns at once from a store without
\* tables, its connection left as it is.
SchemaShowTablesLeaks ==
    /\ pc = "schema_tables"
    /\ executed' = Append(executed, <<"show_tables">>)
    /\ \E answers \in BOOLEAN :
          IF ~answers
            THEN result' = SchemaOutcome(FALSE, TRUE, 0) /\ conn' = "closed" /\ pc' = "schema"
          ELSE IF StoreTables = {}
            THEN result' = SchemaOutcome(TRUE, FALSE, 0) /\ conn' = conn /\ pc' = "schema"
          ELSE result' = result /\ conn' = conn /\ pc' = "schema_table"
    /\ UNCHANGED <<inputs, snap, described, schema_up, total, preview, sink, rows_written, fetched, faults>>

\* Lines 461-472: SHOW TABLES.  An error leaves the tool as an exception,
\* and a store without tables is reported at once; the finally clause
\* of lines 503-504 closes the connection in both cases.
SchemaShowTables ==
    /\ pc = "schema_tables"
    /\ executed' = Append(executed, <<"show_tables">>)
    /\ \E answers \in BOOLEAN :
          IF ~answers
            THEN result' = SchemaOutcome(FALSE, TRUE, 0) /\ conn' = "closed" /\ pc' = "schema"
          ELSE IF StoreTables = {}
            THEN result' = SchemaOutcome(TRUE, FALSE, 0) /\ conn' = "closed" /\ pc' = "schema"
          ELSE result' = result /\ conn' = conn /\ pc' = "schema_table"
    /\ UNCHANGED <<inputs, snap, described, schema_up, total, preview, sink, rows_written, fetched, faults>>

\* Lines 474-506, one turn of the loop: the columns of the next table are
\* read and then two of its rows.  An error of either leaves the tool as
\* an exception; after the last table the tool returns.  The connection
\* is closed in both cases.
SchemaTable ==
    /\ pc = "schema_table"
    /\ IF described = Cardinality(StoreTables)
         THEN /\ result' = SchemaOutcome(TRUE, FALSE, described)
              /\ conn' = "closed"
              /\ pc' = "schema"
              /\ UNCHANGED <<executed, described>>
         ELSE \E answers \in {"columns", "rows", "both"} :
                 /\ executed' = executed \o
                        (IF answers = "columns" THEN <<>> ELSE <<<<"show_columns">>>>)
                        \o (IF answers = "both" THEN <<<<"select_two">>>> ELSE <<>>)
                 /\ IF answers = "both"
                      THEN /\ described' = described + 1
                           /\ UNCHANGED <<result, conn, pc>>
                      ELSE /\ result' = SchemaOutcome(FALSE, TRUE, described)
                           /\ conn' = "closed"
                           /\ pc' = "schema"
                           /\ described' = described
    /\ UNCHANGED <<inputs, snap, schema_up, total, preview, sink, rows_written, fetched, faults>>

\* Lines 877-883: the file is removed when it exists; an error of
\* os.remove is dropped and the file stays.
Discard(removed) ==
    [sink EXCEPT !.file = IF removed THEN "removed" ELSE "partial"]

\* An export that makes its directory before it tries the gates.
SaveGateMakesDir(from) ==
    /\ pc \in from
    /\ sink' = [sink EXCEPT !.dir = TRUE]
    /\ IF ~_is_single_statement(sql)
         THEN result' = SaveError("gate_multi") /\ pc' = "save"
       ELSE IF ~_is_readonly_select(sql)
         THEN result' = SaveError("gate_readonly") /\ pc' = "save"
       ELSE result' = result /\ pc' = "save_connect"
    /\ UNCHANGED <<inputs, snap, described, schema_up, conn, executed, total, preview, rows_written, fetched, faults>>

\* save_to_csv, lines 824-836: the two gates, the tool being called at
\* one of the places from.
SaveGateFrom(from) ==
    /\ pc \in from
    /\ IF ~_is_single_statement(sql)
         THEN result' = SaveError("gate_multi") /\ pc' = "save"
       ELSE IF ~_is_readonly_select(sql)
         THEN result' = SaveError("gate_readonly") /\ pc' = "save"
       ELSE result' = result /\ pc' = "save_connect"
    /\ UNCHANGED <<inputs, snap, described, schema_up, conn, executed, total, preview, sink, rows_written, fetched, faults>>

\* The caller may call the tool first or once static_check_sql is done
\* with the statement.
SaveGate == SaveGateFrom({"idle", "static"})

\* The caller exports the statement once dynamic_check_sql has returned.
SaveAfterProbe == SaveGateFrom({"dynamic"})

\* Lines 838-857: the exports directory is made, then _connect_mysql
\* returns a connection or raises.
SaveConnect ==
    /\ pc = "save_connect"
    /\ sink' = [sink EXCEPT !.dir = TRUE]
    /\ \E up \in BOOLEAN :
          IF up
            THEN conn' = "open" /\ pc' = "save_execute" /\ result' = result
            ELSE conn' = conn /\ pc' = "save" /\ result' = SaveError("connect")
    /\ rows_written' = 0
    /\ UNCHANGED <<inputs, snap, described, schema_up, executed, total, preview, fetched, faults>>

\* Lines 860-867: the file is opened for writing, the statement is
\* executed, and the header row is written.  On an error the file is
\* discarded (lines 877-888) and the connection closed (lines 889-893).
SaveExecute ==
    /\ pc = "save_execute"
    /\ executed' = Append(executed, sql)
    /\ \E answers \in StoreAnswers(sql) :
          /\ faults' = Fault("execute", sql, answers)
          /\ IF answers
               THEN /\ sink' = [sink EXCEPT !.file = "open", !.header = columns]
                    /\ pc' = "save_fetch"
                    /\ UNCHANGED <<result, conn>>
               ELSE /\ \E removed \in BOOLEAN : sink' = Discard(removed)
                    /\ result' = SaveError("store")
                    /\ conn' = "closed"
                    /\ pc' = "save"
    /\ UNCHANGED <<inputs, snap, described, schema_up, total, preview, rows_written, fetched>>

\* Lines 869-875, one turn of the loop: fetchmany hands over the next
\* batch, which is written row by row; an empty batch ends the loop and
\* the tool returns (lines 895-907).  On an error of the fetch or of the
\* write the file is discarded.
SaveFetch ==
    /\ pc = "save_fetch"
    /\ \E answers \in BOOLEAN :
          IF ~answers
            THEN /\ \E removed \in BOOLEAN : sink' = Discard(removed)
                 /\ result' = SaveError("store")
                 /\ conn' = "closed"
                 /\ pc' = "save"
                 /\ fetched' = fetched
                 /\ faults' = faults \cup {"fetch"}
                 /\ UNCHANGED rows_written
            ELSE LET batch == [k \in 1..Min(limits.fetch_size, store_rows - fetched)
                                 |-> ResultRow(fetched + k)]
                 IN  /\ faults' = faults
                     /\ IF Len(batch) = 0
                          THEN /\ sink' = [sink EXCEPT !.file = "closed"]
                               /\ conn' = "closed"
                               /\ pc' = "save"
                               /\ result' = SaveOutcome(rows_written)
                               /\ UNCHANGED <<rows_written, fetched>>
                          ELSE /\ sink' = [sink EXCEPT !.lines = @ \o
                                              [k \in 1..Len(batch) |->
                                                  WrittenRow(batch[k], sink.header)]]
                               /\ fetched' = fetched + Len(batch)
                               /\ rows_written' = rows_written + Len(batch)
                               /\ UNCHANGED <<result, conn, pc>>
    /\ UNCHANGED <<inputs, snap, described, schema_up, executed, total, preview>>

-----------------------------------------------------------------------------
(* Specifications.                                                         *)

DefaultLimits == [sample_limit |-> 1, preview_pool |-> 2, fetch_size |-> 1]

Fresh ==
    /\ schema_up = TRUE
    /\ pc = "idle"
    /\ result = Idle
    /\ conn = "none"
    /\ executed = <<>>
    /\ total = CountFailed
    /\ preview = PreviewFailed
    /\ sink = NoSink
    /\ rows_written = 0
    /\ fetched = 0
    /\ faults = {}
    /\ snap = "none"
    /\ described = 0

\* Texts with comments, strings and terminators; one store, one snapshot.
InitScan ==
    /\ sql \in Texts(ScanAlphabet, MaxSqlLen)
    /\ tree = EmptyTree
    /\ schema_tables = EmptySchema
    /\ store_rows = 1
    /\ columns = <<"a">>
    /\ limits = DefaultLimits
    /\ Fresh

\* Texts with both kinds of string and escapes.
InitQuote ==
    /\ sql \in Texts(QuoteAlphabet, MaxQuoteLen)
    /\ tree = EmptyTree
    /\ schema_tables = EmptySchema
    /\ store_rows = 1
    /\ columns = <<"a">>
    /\ limits = DefaultLimits
    /\ Fresh

\* One text, every tree and snapshot.
InitResolve ==
    /\ sql = <<"select", "sp", "x">>
    /\ tree \in Trees
    /\ schema_tables \in Schemas
    /\ store_rows = 1
    /\ columns = <<"a">>
    /\ limits = DefaultLimits
    /\ Fresh

\* A text that passes the gates and two that do not; stores of every size, every sample
\* size and pool size, a snapshot with or without the statement's table.
InitDynamic ==
    /\ sql \in {<<"select", "sp", "x">>, <<"Drop", "sp", "x">>,
                <<"select", "semi", "select">>}
    /\ tree \in {EmptyTree, [EmptyTree EXCEPT !.tables = <<[name |-> "t1", alias |-> ""]>>]}
    /\ schema_tables \in {EmptySchema, [t \in {"t1"} |-> {"id"}]}
    /\ store_rows \in 0..MaxRows
    /\ columns = <<"a">>
    /\ limits \in [sample_limit : 0..MaxSample, preview_pool : 0..MaxPool,
                    fetch_size : {1}]
    /\ Fresh

\* Statements that end in a terminator, in a terminator and a line break,
\* or in a comment; results of one or two columns, of one name or of two;
\* batches of every size.
InitExport ==
    /\ sql \in {<<"select", "sp", "x">>, <<"select", "sp", "x", "semi">>,
                <<"select", "sp", "x", "semi", "nl">>,
                <<"select", "sp", "x", "hash", "x">>,
                <<"Drop", "sp", "x">>, <<"select", "semi", "select">>}
    /\ tree = EmptyTree
    /\ schema_tables \in {EmptySchema, [t \in {"t1"} |-> {"id"}]}
    /\ store_rows \in 0..MaxRows
    /\ columns \in {<<"a">>, <<"a", "b">>, <<"a", "a">>}
    /\ limits \in [sample_limit : {1}, preview_pool : {2}, fetch_size : 1..MaxFetch]
    /\ Fresh

DynamicCheck == DynGate \/ DynConnect \/ DynCount \/ DynPreview

SaveToCsv == SaveGate \/ SaveConnect \/ SaveExecute \/ SaveFetch

Next == StaticCheck \/ DynamicCheck \/ SaveToCsv

GetMysqlSchema == SchemaConnect \/ SchemaShowTables \/ SchemaTable

\* The tools, the export also after the dynamic check.
NextExport == Next \/ SaveAfterProbe \/ GetMysqlSchema

\* The static check alone.
NextStatic == StaticCheck

SpecScan == InitScan /\ [][Next]_vars
SpecQuote == InitQuote /\ [][Next]_vars
SpecResolve == InitResolve /\ [][NextStatic]_vars
SpecDynamic == InitDynamic /\ [][Next]_vars
SpecExport == InitExport /\ [][NextExport]_vars

-----------------------------------------------------------------------------
(* What the claims speak of.                                               *)

\* The one-word patterns of the denylist.
DeniedWords ==
    {FORBIDDEN_TOKENS[k][1] :
        k \in {j \in 1..Len(FORBIDDEN_TOKENS) : Len(FORBIDDEN_TOKENS[j]) = 1}}

\* Symbol i of s is a denylisted keyword, in any letter case.
KeywordAt(s, i) ==
    Lower(s[i]) \in DeniedWords /\ BoundaryBefore(s, i) /\ BoundaryAfter(s, i)

\* A denylisted keyword of s lies outside every string and every comment.
KeywordInCode(s) ==
    \E i \in 1..Len(s) : KeywordAt(s, i) /\ LexModes(s)[i] = "code"

\* s holds denylisted keywords, all of them inside string literals.
KeywordOnlyInStrings(s) ==
    /\ \E i \in 1..Len(s) : KeywordAt(s, i)
    /\ \A i \in 1..Len(s) :
          KeywordAt(s, i) => LexModes(s)[i] \in {"sq", "dq", "sq_esc", "dq_esc"}

\* Every string and every block comment of s is closed.
WellFormed(s) == LexModes(s)[Len(s) + 1] \in {"code", "line"}

\* static_check_sql went through all its stages and returned.
StaticReturned == pc = "static" /\ ~result.raised /\ result.at = "end"

Elements(seq) == {seq[i] : i \in 1..Len(seq)}

CountOf(seq, e) == Cardinality({i \in 1..Len(seq) : seq[i] = e})

\* The tables of the snapshot, without letter case.
SnapshotTables == {Lower(k) : k \in DOMAIN schema_tables}

\* The tables the statement refers to, without letter case.
ReferredTables ==
    {Lower(tree.tables[i].name) : i \in 1..Len(tree.tables)} \ {""}

\* The names the statement gives to its CTEs and subqueries.
DerivedNames ==
    {Lower(n) : n \in (Elements(tree.ctes) \cup Elements(tree.subqueries)) \ {""}}

\* Snapshot table t, stored under that very name, has column n.
HasColumn(t, n) ==
    t \in DOMAIN schema_tables /\ n \in {Lower(c) : c \in schema_tables[t]}

\* The findings about a column named n.
ColumnEntries(n) ==
    Cardinality({i \in 1..Len(result.found.missing_columns) :
                    result.found.missing_columns[i].column = n})
    + Cardinality({i \in 1..Len(result.found.ambiguous_columns) :
                    result.found.ambiguous_columns[i].column = n})

\* The column references named n that satisfy P.
References(n, P(_)) ==
    Cardinality({i \in 1..Len(tree.columns) :
                    Lower(tree.columns[i].name) = n /\ P(tree.columns[i])})

-----------------------------------------------------------------------------
(* The claims.                                                             *)

\* C1: whenever static_check_sql has run through a statement in which a
\* denylisted keyword stands outside every string literal and every
\* comment, its findings hold FORBIDDEN_TOKEN and checks.readonly is fail.
C1_KeywordInCodeIsReported ==
    (StaticReturned /\ WellFormed(sql) /\ KeywordInCode(sql))
        => /\ "FORBIDDEN_TOKEN" \in Elements(result.findings)
           /\ result.readonly = "fail"

\* C2: whenever every denylisted keyword of the statement lies inside a
\* single- or double-quoted string literal, the scan over the scrubbed
\* text matches nothing: no FORBIDDEN_TOKEN finding, no forbidden pattern.
C2_KeywordInLiteralIsNotReported ==
    (StaticReturned /\ WellFormed(sql) /\ KeywordOnlyInStrings(sql))
        => /\ result.forbidden = {}
           /\ "FORBIDDEN_TOKEN" \notin Elements(result.findings)

\* C3: no text handed to cursor.execute by dynamic_check_sql or
\* save_to_csv holds a denylisted keyword outside strings and comments or
\* more than one statement, and for a statement that does, no connection
\* is ever opened.
C3_StoreIsReadOnly ==
    WellFormed(sql)
        => /\ \A i \in 1..Len(executed) :
                 ~KeywordInCode(executed[i]) /\ ChunkBreaks(executed[i]) = {}
           /\ (KeywordInCode(sql) \/ ChunkBreaks(sql) # {}) => conn = "none"

\* C4: once static_check_sql is done with an input of two or more
\* statements separated by ';', it has returned status fail with
\* checks.multi_statement fail and a MULTI_STATEMENT finding; and a single
\* statement with one trailing ';' is not reported as multi-statement.
C4_MultiStatementIsReported ==
    (pc = "static" /\ WellFormed(sql) /\ TopKind(sql) # "None")
        => /\ ChunkBreaks(sql) # {}
                => /\ ~result.raised
                   /\ result.status = "fail"
                   /\ result.multi_statement = "fail"
                   /\ "MULTI_STATEMENT" \in Elements(result.findings)
           /\ (ChunkBreaks(sql) = {} /\ ~result.raised)
                => /\ result.multi_statement = "pass"
                   /\ "MULTI_STATEMENT" \notin Elements(result.findings)

\* C5: every table the statement refers to that is absent from the
\* snapshot is in missing_tables exactly once, however often it is
\* referred to or aliased, and schema_match and the status are fail.
C5_MissingTableReportedOnce ==
    StaticReturned
        => \A t \in ReferredTables \ SnapshotTables :
              /\ CountOf(result.found.missing_tables, t) = 1
              /\ result.schema_match = "fail"
              /\ result.status = "fail"

\* C6: when the statement joins two snapshot tables that both have a
\* column id, a bare id yields ambiguous_column findings that list the two
\* qualified candidates, one per table, and an id qualified with a table's
\* name or alias yields no finding.
C6_AmbiguousListsOneCandidatePerTable ==
    (/\ StaticReturned
     /\ Cardinality(ReferredTables) = 2
     /\ \A t \in ReferredTables : HasColumn(t, "id"))
        => /\ References("id", LAMBDA c : c.table = "") > 0
                => /\ result.found.ambiguous_columns # <<>>
                   /\ \A e \in Elements(result.found.ambiguous_columns) :
                         /\ Len(e.candidates) = 2
                         /\ Elements(e.candidates) =
                               {[table |-> t, column |-> "id"] : t \in ReferredTables}
           /\ References("id", LAMBDA c : c.table = "") = 0
                => ColumnEntries("id") = 0

\* C7: an unqualified column that exactly one referred real table has
\* yields no missing_column and no ambiguous_column finding, also when
\* that table has an alias or is referred to more than once.
C7_UniqueColumnYieldsNoFinding ==
    StaticReturned
        => \A n \in {"id", "x"} :
              Cardinality({t \in ReferredTables : HasColumn(t, n)}) = 1
                 => ColumnEntries(n) <= References(n, LAMBDA c : c.table # "")

\* C8: a column reference whose prefix names a CTE or a subquery yields no
\* missing_column and no ambiguous_column finding: the findings about a
\* column name are no more than the references to it with another prefix.
C8_DerivedPrefixNeverReported ==
    StaticReturned
        => \A n \in {"id", "x"} :
              ColumnEntries(n)
                 <= References(n, LAMBDA c : Lower(c.table) \notin DerivedNames)

\* C8, its case: x is in no snapshot table, the only reference to it has
\* the prefix of a subquery or CTE that is also the name or the alias of a
\* real table, and the static check has returned.
C8_Witness ==
    /\ StaticReturned
    /\ \A t \in DOMAIN schema_tables : "x" \notin schema_tables[t]
    /\ References("x", LAMBDA c : TRUE) = 1
    /\ References("x", LAMBDA c : Lower(c.table) \in DerivedNames) = 1
    /\ \E i \in 1..Len(tree.tables) :
          DerivedNames \cap {Lower(tree.tables[i].name), Lower(tree.tables[i].alias)} # {}

\* C9: a name the statement introduces as a CTE and then refers to in FROM
\* or JOIN is not reported in missing_tables and does not make
\* schema_match fail.
C9_CteIsNotARealTable ==
    (StaticReturned /\ ReferredTables \ Elements(tree.ctes) \subseteq SnapshotTables)
        => /\ \A c \in Elements(tree.ctes) :
                 Lower(c) \notin Elements(result.found.missing_tables)
           /\ result.found.missing_tables = <<>>

\* The statement and the snapshot in lower case.
LowerTree(root) ==
    [tables |-> [i \in 1..Len(root.tables) |->
                    [name |-> Lower(root.tables[i].name),
                     alias |-> Lower(root.tables[i].alias)]],
     ctes |-> [i \in 1..Len(root.ctes) |-> Lower(root.ctes[i])],
     subqueries |-> [i \in 1..Len(root.subqueries) |-> Lower(root.subqueries[i])],
     columns |-> [i \in 1..Len(root.columns) |->
                    [name |-> Lower(root.columns[i].name),
                     table |-> Lower(root.columns[i].table),
                     clause |-> root.columns[i].clause]]]

LowerSchema(schema) ==
    [t \in {Lower(k) : k \in DOMAIN schema} |->
        UNION {{Lower(c) : c \in schema[k]} : k \in {j \in DOMAIN schema : Lower(j) = t}}]

\* C10: the three lists do not depend on the letter case of the names in
\* the snapshot and in the statement: they are the lists of the same
\* statement and snapshot written in lower case.
C10_ResolutionIgnoresCase ==
    StaticReturned
        => result.found = _check_schema_columns(LowerTree(tree), LowerSchema(schema_tables))

\* C11: in every result of static_check_sql that comes after a successful
\* parse, schema_match is fail exactly when missing_tables or
\* missing_columns is not empty, warn exactly when both are empty and
\* ambiguous_columns is not, pass otherwise; and with the two other checks
\* at pass, a warn leaves the status at pass.
C11_SchemaMatchSeverity ==
    StaticReturned
        => LET f       == result.found
               missing == f.missing_tables # <<>> \/ f.missing_columns # <<>>
               ambig   == f.ambiguous_columns # <<>>
           IN  /\ result.schema_match = "fail" <=> missing
               /\ result.schema_match = "warn" <=> (~missing /\ ambig)
               /\ result.schema_match = "pass" <=> (~missing /\ ~ambig)
               /\ (/\ result.schema_match = "warn"
                   /\ result.multi_statement = "pass"
                   /\ result.readonly = "pass") => result.status = "pass"

\* C11, its case: the static check returned with ambiguous columns and
\* nothing missing.
C11_Witness ==
    /\ StaticReturned
    /\ result.found.ambiguous_columns # <<>>
    /\ result.found.missing_tables = <<>>
    /\ result.found.missing_columns = <<>>
    /\ result.schema_match = "warn"
    /\ result.status = "pass"

\* C12: when the statement cannot be parsed, static_check_sql returns
\* status fail with the one finding SQL_PARSE_ERROR and does none of the
\* later stages: the three checks are as they were set up, no forbidden
\* pattern is listed, nothing is resolved, and the schema source is not
\* asked, so the call returns also when that source is down.
C12_ParseFailureShortCircuits ==
    (pc = "static" /\ ~WellFormed(sql))
        => /\ ~result.raised
           /\ result.at = "parse"
           /\ result.status = "fail"
           /\ result.findings = <<"SQL_PARSE_ERROR">>
           /\ result.multi_statement = "pass"
           /\ result.readonly = "pass"
           /\ result.forbidden = {}
           /\ result.schema_match = "pass"
           /\ result.found = NoColumns

\* C12, its case: a statement with an open string, a denylisted keyword
\* the scan would find and a second statement, checked while the schema
\* source is down.
C12_Witness ==
    /\ pc = "static"
    /\ ~WellFormed(sql)
    /\ ~schema_up
    /\ forbidden_hits(sql) # {}
    /\ ~_is_single_statement(sql)

\* C13: static_check_sql never raises: whatever the statement, and
\* whether or not the configuration and the schema source can be read, the
\* call returns a result.
C13_StaticNeverRaises ==
    pc = "static" => ~result.raised

\* C14: every problem static_check_sql detects is a finding of the
\* findings list, each missing table, missing column and ambiguous column
\* included, so the list has at least as many findings as the three lists
\* have entries, and it is not empty when the returned status is fail.
C14_EveryProblemIsAFinding ==
    StaticReturned
        => /\ Len(result.findings) >= Len(result.found.missing_tables)
                                      + Len(result.found.missing_columns)
                                      + Len(result.found.ambiguous_columns)
           /\ result.status = "fail" => result.findings # <<>>

\* The statement has gone through static_check_sql and its schema_match
\* is not fail.
Validated ==
    /\ result.tool = "static"
    /\ ~result.raised
    /\ result.at = "end"
    /\ result.schema_match # "fail"

\* C15: dynamic_check_sql sends the count query and the preview query of
\* a statement to the store only after a static validation of that
\* statement whose schema_match is not fail.
C15_ExecutionNeedsValidation ==
    [][(DynCount \/ DynPreview) => Validated]_vars

\* dynamic_check_sql opened its connection and has returned.
DynamicRan == pc = "dynamic" /\ result.tool = "dynamic" /\ conn = "closed"

\* The statement as _count_rows and _preview_rows embed it.
Embedded(text) == SubSeq(text, 2, Len(text) - 1) = RStripSet(sql, {"semi"})

\* C16: once the gates have passed and the connection is open,
\* dynamic_check_sql executes the count query once and then the preview
\* query once, in that order and nothing else, whether or not the count
\* query failed; and a failed count followed by a preview that succeeds
\* gives a success outcome, not a runtime_error.
C16_CountThenPreviewOnce ==
    /\ pc = "dyn_preview"
          => /\ Len(executed) = 1
             /\ executed[1][1] = "cnt" /\ Embedded(executed[1])
    /\ DynamicRan
          => /\ Len(executed) = 2
             /\ executed[1][1] = "cnt" /\ Embedded(executed[1])
             /\ executed[2][1] = "prv" /\ Embedded(executed[2])
             /\ (total.failed /\ ~preview.failed)
                   => result.ok /\ result.status = "success"

\* C16, its case: the count query failed, the preview succeeded, and the
\* tool has returned.
C16_Witness ==
    /\ DynamicRan
    /\ total.failed
    /\ ~preview.failed
    /\ Len(executed) = 2

\* C17: when the preview query fails, dynamic_check_sql returns ok = false
\* with status runtime_error and the error of the preview, whether or not
\* the count query succeeded.
C17_PreviewFailureIsFatal ==
    (DynamicRan /\ preview.failed)
        => /\ ~result.ok
           /\ result.status = "runtime_error"
           /\ result.error = "preview"

\* C17, its case: the count query succeeded with rows to show, the preview
\* failed, and the tool has returned.
C17_Witness ==
    /\ DynamicRan
    /\ preview.failed
    /\ ~total.failed
    /\ total.n > 0

\* C18: _preview_rows returns the whole pool as it is when the pool has at
\* most sample_limit rows, and otherwise sample_limit rows from places of
\* the pool that differ pairwise; so it returns min(pool size,
\* sample_limit) rows, each a row of the pool, and the pool has at most
\* preview_pool rows.
C18_PreviewSampleShape ==
    ~preview.failed
        => LET pool    == preview.pool
               samples == preview.samples
           IN  /\ Len(pool) <= limits.preview_pool
               /\ Len(pool) <= limits.sample_limit => samples = pool
               /\ Len(pool) > limits.sample_limit
                     => /\ Len(samples) = limits.sample_limit
                        /\ \A i, j \in 1..Len(samples) :
                              samples[i] = samples[j] => i = j
               /\ Len(samples) = Min(Len(pool), limits.sample_limit)
               /\ \A i \in 1..Len(samples) : samples[i] \in Elements(pool)

\* C18, its case: the pool holds more rows than the sample may, and more
\* than one row is drawn.
C18_Witness ==
    /\ ~preview.failed
    /\ Len(preview.pool) > limits.sample_limit
    /\ limits.sample_limit > 1

\* C19: in a success outcome of dynamic_check_sql, row_count is the probed
\* count when the count query succeeded, and the number of rows of the
\* fetched preview pool, not of the sample drawn from it, when it failed.
C19_RowCountFallsBackToPool ==
    (DynamicRan /\ result.ok)
        => /\ ~total.failed => result.row_count = total.n
           /\ total.failed => result.row_count = Len(preview.pool)

\* C20: a success outcome of dynamic_check_sql whose row_count does not
\* come from a successful count query says so, also when that row_count
\* is 0.
C20_ApproximationIsMarked ==
    (DynamicRan /\ result.ok /\ total.failed)
        => result.note = "count_failed"


\* C21: a statement that the store executes without error and that yields
\* no rows makes dynamic_check_sql return ok, status success, row_count 0
\* and no sample rows with the hint for an empty result, never
\* runtime_error.  The store failed at no text it could have run.
C21_EmptyResultIsSuccess ==
    (DynamicRan /\ store_rows = 0 /\ ~StoreRejects(sql) /\ faults = {})
        => /\ result.ok
           /\ result.status = "success"
           /\ result.row_count = 0
           /\ result.sample_rows = <<>>
           /\ result.note = "empty_hint"


\* save_to_csv opened its connection, met no error and has returned.
SaveSucceeded == pc = "save" /\ result.tool = "save" /\ result.ok

\* save_to_csv has returned an error after its file was opened.
SaveFailedMidStream ==
    /\ pc = "save"
    /\ result.tool = "save"
    /\ ~result.ok
    /\ result.error = "store"

\* C22: save_to_csv executes the statement exactly once and, on success,
\* the file holds the header row and then every row of the result once,
\* in the order of the fetches, and rows_written is the number of rows of
\* the result.
C22_SinkHoldsTheResult ==
    SaveSucceeded
        => /\ Cardinality({i \in 1..Len(executed) : executed[i] = sql}) = 1
           /\ sink.file = "closed"
           /\ sink.header = columns
           /\ sink.lines = [i \in 1..store_rows |-> ResultRow(i)]
           /\ result.rows_written = store_rows


\* C23: when the execution, a fetch or a write fails after the file was
\* created, save_to_csv returns ok false with status runtime_error, the
\* file does not exist any more, and the outcome names no file.
C23_PartialFileIsDiscarded ==
    SaveFailedMidStream
        => /\ result.status = "runtime_error"
           /\ result.file_path = FALSE
           /\ sink.file = "removed"

\* C24: a result of no rows still yields a file of the header row alone,
\* with status empty and rows_written 0; status success is returned
\* exactly when rows_written is more than 0.
C24_EmptyResultIsHeaderOnly ==
    SaveSucceeded
        => /\ store_rows = 0
              => /\ sink.file = "closed"
                 /\ sink.header = columns
                 /\ sink.lines = <<>>
                 /\ result.status = "empty"
                 /\ result.rows_written = 0
           /\ result.status = "success" <=> result.rows_written > 0
           /\ result.status \in {"success", "empty"}

\* C24, its case: the export of a result of no rows has returned.
C24_Witness == SaveSucceeded /\ store_rows = 0 /\ sink.header # <<>>


\* C25: on an unchanged store, the rows_written of save_to_csv is the
\* row_count that dynamic_check_sql reports of the same statement from a
\* count query that succeeded, and the header of the file is the list of
\* the statement's columns.
C25_ExportAgreesWithCount ==
    (SaveSucceeded /\ ~total.failed /\ ~preview.failed)
        => /\ result.rows_written = DynOutcome(total, preview.samples).row_count
           /\ Len(sink.lines) = result.rows_written
           /\ sink.header = columns

\* C25, its case: a statement of one column and two rows was counted and
\* then exported.
C25_Witness ==
    /\ SaveSucceeded
    /\ ~total.failed
    /\ ~preview.failed
    /\ columns = <<"a">>
    /\ store_rows = 2
    /\ Len(sink.lines) = 2


\* One of the two gates of dynamic_check_sql or save_to_csv has refused
\* the statement and the tool has returned.
GateRefused ==
    /\ pc \in {"dynamic", "save"}
    /\ result.tool \in {"dynamic", "save"}
    /\ result.error \in {"gate_multi", "gate_readonly"}

\* C26: when a gate refuses the statement, dynamic_check_sql and
\* save_to_csv return runtime_error having opened no connection and
\* executed no query, and save_to_csv having made neither its directory
\* nor its file.
C26_RefusalHasNoEffect ==
    GateRefused
        => /\ ~result.ok
           /\ result.status = "runtime_error"
           /\ conn = "none"
           /\ executed = <<>>
           /\ sink = NoSink
           /\ rows_written = 0

\* C26, its case: save_to_csv has refused a statement that goes on after
\* its terminator.
C26_Witness ==
    /\ GateRefused
    /\ result.tool = "save"
    /\ ~_is_single_statement(sql)


\* A tool that opens a connection has returned or raised.
ToolReturned == pc \in {"static", "dynamic", "save", "schema"}

\* C27: every connection that _fetch_schema_snapshot, dynamic_check_sql,
\* save_to_csv or get_mysql_schema opens is closed when the operation
\* returns or raises, on every path, and a text is handed to a
\* connection only while that connection is open.
C27_ConnectionsAreClosed ==
    /\ [](ToolReturned => conn # "open" /\ snap # "open")
    /\ [][executed' # executed => conn = "open"]_vars

\* C27, its case: a query of get_mysql_schema failed and the tool has
\* raised.
C27_Witness ==
    /\ pc = "schema"
    /\ result.tool = "schema"
    /\ result.raised
    /\ conn = "closed"
    /\ Len(executed) > 0


\* The places of q where a statement terminator is read as code.
TerminatorsInCode(q) ==
    {i \in 1..Len(q) : q[i] = "semi" /\ LexModes(q)[i] = "code"}

\* C28: the count query and the preview query built of a statement that
\* _is_single_statement accepts, also one whose closing ';' is followed
\* by white space or a comment, hold no ';' outside strings and comments
\* within the parentheses.
C28_WrappedTextHasNoTerminator ==
    \A i \in 1..Len(executed) :
        (executed[i][1] \in {"cnt", "prv"} /\ _is_single_statement(sql))
            => TerminatorsInCode(executed[i]) = {}


\* C29: the gates of the static check and the gates of dynamic_check_sql
\* and save_to_csv agree on every statement, in both directions: the
\* static check gives pass for multi_statement and for readonly exactly
\* when _is_single_statement and _is_readonly_select accept the text.
C29_GatesAgree ==
    StaticReturned
        => ((result.multi_statement = "pass" /\ result.readonly = "pass")
              <=> (_is_single_statement(sql) /\ _is_readonly_select(sql)))


\* static_check_sql has returned a result.
StaticResult == pc = "static" /\ result.tool = "static" /\ ~result.raised

\* One of the three checks of the result has status fail.
SomeCheckFails ==
    \/ result.multi_statement = "fail"
    \/ result.readonly = "fail"
    \/ result.schema_match = "fail"

\* C30: in every result of static_check_sql, the one of a failed parse
\* too, the overall status is fail exactly when one of the checks
\* multi_statement, readonly, schema_match has status fail, and pass
\* otherwise.
C30_FailIffACheckFails ==
    StaticResult
        => /\ result.status = "fail" <=> SomeCheckFails
           /\ result.status \in {"pass", "fail"}

\* C30, amended: the overall status is fail exactly when one of the three
\* checks has status fail or the parse failed, and pass otherwise; the
\* result of a failed parse has status fail with all three checks at
\* pass and the finding SQL_PARSE_ERROR.
C30_FailIffACheckFailsOrParseFailed ==
    StaticResult
        => /\ result.status = "fail" <=> (SomeCheckFails \/ result.at = "parse")
           /\ result.status \in {"pass", "fail"}
           /\ result.at = "parse"
                 => /\ ~SomeCheckFails
                    /\ result.findings = <<"SQL_PARSE_ERROR">>

\* C30, its case: the parse failed and the result says fail with no check
\* at fail.
C30_Witness ==
    /\ StaticResult
    /\ result.at = "parse"
    /\ result.status = "fail"
    /\ ~SomeCheckFails

=============================================================================
